---- MODULE Spec2Model ----
(***************************************************************************)
(* Veta: a note store (tables notes, tags, note_tags) behind an HTTP       *)
(* service, called by the tool adapters of the example agents.             *)
(*                                                                         *)
(* The tables and their constraints are those of                           *)
(* schema/migrations/0001_initial.sql.  The tool adapter is                *)
(* examples/agents-sdk/src/tools.ts (executeVetaCommand).  The request     *)
(* handlers of the service are not among the sources; they follow the      *)
(* service's specification (sections 4.1, 5 and 7).                        *)
(*                                                                         *)
(* Text is a sequence of characters; the empty string is << >>.  A JSON    *)
(* object is a record, and a missing field is a field the record lacks.    *)
(***************************************************************************)
EXTENDS Integers, Sequences, FiniteSets, Bags, TLC

VARIABLES
    notes,      \* table notes: rows [id, title, body, created_at, updated_at]
    tags,       \* table tags: rows [id, name]
    note_tags,  \* table note_tags: rows [note_id, tag_id]
    columns,    \* the columns that migrations after the first added to notes
    seq,        \* sqlite_sequence: the last AUTOINCREMENT id of notes and of tags
    now,        \* the store's clock, datetime('now'); Tick advances it
    call,       \* per client: the tool call in flight and its position
    resp,       \* what the step just taken returned to its caller, if it returned
    created,    \* history: per live note id, what its create request asked for
    removed     \* history: per deleted note id, the tag names it carried

vars ==
    <<notes, tags, note_tags, columns, seq, now, call, resp, created, removed>>

(* ------------------------------ bounds -------------------------------- *)

\* Create requests the store accepts before the model stops creating.
MaxNotes == 2
\* Ticks of the store's clock.
MaxNow == 2

\* The callers that run concurrently.
Clients == {"c1", "c2"}
\* In Spec one caller creates while the other deletes; in SpecRace both create.
Creators == {"c2"}
Removers == {"c1"}
TagNames == {"x", "y"}
\* The title and body of the add calls: two notes that differ in both, one of
\* them with an empty body.
AddTexts ==
    {[title |-> <<"A">>, body |-> <<"h", "i">>],
     [title |-> <<"B">>, body |-> << >>]}
\* The create requests that lack a title, have an empty one, or lack a body.
BadRequests ==
    {[title |-> << >>, body |-> <<"h", "i">>, tags |-> <<"x">>],
     [title |-> <<"A">>, tags |-> <<"x">>],
     [body |-> <<"h", "i">>, tags |-> <<"x">>]}
\* The tag lists of the add calls, over TagNames: none, one tag, two tags, a
\* repeated tag.
TagLists == {<< >>, <<"x">>, <<"y", "x">>, <<"x", "y", "x">>}
\* The ids a caller may name: every id the model assigns, and one it never does.
NoteIds == 1 .. (MaxNotes + 1)
\* The id lists of the rm calls: no id, one id, two ids (also the same id twice).
IdLists ==
    {<< >>} \cup {<<i>> : i \in 1 .. MaxNotes}
            \cup {<<i, j>> : i, j \in 1 .. MaxNotes}
\* The id lists of the rm calls that run beside two creators: one id.
SingleIds == {<<i>> : i \in 1 .. MaxNotes}
\* The patterns and tag filters of the read requests.
Patterns == {<<"h">>, <<"A">>, <<"z">>}
Filters == {<< >>, <<"x">>, <<"y">>, <<"x", "y">>}

\* A pattern that is no regular expression: a group that is never closed.
BadPatterns == {<<"(">>}
\* The inputs of the grep command: a pattern, without tags or with the filter x.
GrepInputs ==
    {[command |-> "grep", query |-> q] : q \in Patterns \cup BadPatterns}
        \cup {[command |-> "grep", query |-> q, tags |-> <<"x">>] : q \in Patterns}
\* What the body of an error response may be: a plain message, or JSON.
ErrorBodies == {"text", "json_object", "json_string"}
\* Inputs of the add tools that the schema of the tool admits and the service
\* rejects: an empty title.
UntitledInputs == {[title |-> << >>, body |-> <<"h", "i">>, tags |-> <<"x">>]}
\* Tag names a filter may hold beside a plain one (z.array(z.string()) admits
\* any string): a comma, and the separator of URL parameters.
FilterNames == {"x", ",", "&"}
\* The tag lists of the ls and grep calls with such names: one or two names.
NameLists == {<<a>> : a \in FilterNames} \cup {<<a, b>> : a, b \in FilterNames}
\* The caller that runs the search tools, between its rm calls.
Readers == {"c1"}

\* The inputs of the ls command: without the optional tags, or with a filter.
LsInputs ==
    {[command |-> "ls"]} \cup {[command |-> "ls", tags |-> f] : f \in Filters}

Range(s) == {s[i] : i \in DOMAIN s}

Idle == [pc |-> "idle"]

NoReturn == [tool |-> "none", kind |-> "none"]

(* ------------------------- the schema's tables ------------------------ *)

\* notes.title and notes.body are NOT NULL: an INSERT needs both values.
NotesInsertOk(row) == "title" \in DOMAIN row /\ "body" \in DOMAIN row

\* Mutant: notes.id without AUTOINCREMENT, one more than the largest id in
\* the table.
NextNoteId_MaxRowid ==
    IF notes = {} THEN 1
    ELSE (CHOOSE n \in notes : \A m \in notes : n.id >= m.id).id + 1

\* notes.id INTEGER PRIMARY KEY AUTOINCREMENT: one more than the largest id
\* the table ever held, which sqlite_sequence keeps.
NextNoteId == seq.notes + 1

\* Mutant: created_at is read from the clock after the row was written.
CreatedAtDefault_Later == now + 1

\* notes.created_at DEFAULT (datetime('now')): the clock at the INSERT.
CreatedAtDefault == now

\* notes.updated_at DEFAULT (datetime('now')): the clock at the INSERT.
UpdatedAtDefault == now

\* The column of the second migration, as its statement writes it: a bare word.
MigrationColumn == "references"

\* DEFAULT '[]': the empty JSON array, the empty list of references.
ReferencesDefault == << >>

\* Words that SQL reads as keywords, never as a bare column name; the schema
\* itself uses REFERENCES as one.
Keywords == {"references", "table", "column", "default"}

\* ALTER TABLE notes ADD COLUMN <name> ...: the statement parses.
AddColumnOk(name) == name \notin Keywords

\* The row an INSERT INTO notes writes: the request's title and body, and the
\* defaults of the other columns.
NoteRow(id, req) ==
    IF MigrationColumn \in columns
    THEN [id |-> id, title |-> req.title, body |-> req.body,
          created_at |-> CreatedAtDefault, updated_at |-> UpdatedAtDefault,
          references |-> ReferencesDefault]
    ELSE [id |-> id, title |-> req.title, body |-> req.body,
          created_at |-> CreatedAtDefault, updated_at |-> UpdatedAtDefault]

\* ADD COLUMN ... NOT NULL DEFAULT: every row there is gets the default.
WithColumn(row) ==
    [id |-> row.id, title |-> row.title, body |-> row.body,
     created_at |-> row.created_at, updated_at |-> row.updated_at,
     references |-> ReferencesDefault]

\* tags.id INTEGER PRIMARY KEY AUTOINCREMENT.
NextTagId == seq.tags + 1

\* Mutant: tags.name without UNIQUE.
TagInsertOk_NoUnique(name) == TRUE

\* tags.name TEXT NOT NULL UNIQUE: an INSERT of a name the table holds fails.
TagInsertOk(name) == \A t \in tags : t.name # name

\* Mutant: note_tags without its PRIMARY KEY.
NoteTagInsertOk_NoKey(rows, nid, tid) ==
    /\ \E n \in notes : n.id = nid
    /\ \E t \in tags : t.id = tid

\* note_tags: both parents exist (REFERENCES notes(id), REFERENCES tags(id))
\* and the table does not hold the pair (PRIMARY KEY (note_id, tag_id)).
NoteTagInsertOk(rows, nid, tid) ==
    /\ \E n \in notes : n.id = nid
    /\ \E t \in tags : t.id = tid
    /\ ~BagIn([note_id |-> nid, tag_id |-> tid], rows)

\* Mutant: the delete also takes the rows of other notes with the same tags.
CascadeNoteDelete_ByTag(rows, nid) ==
    LET gone == {r.tag_id : r \in {q \in BagToSet(rows) : q.note_id = nid}}
        kept == {r \in BagToSet(rows) : r.note_id # nid /\ r.tag_id \notin gone}
    IN  [r \in kept |-> rows[r]]

\* Mutant: note_id without ON DELETE CASCADE (or foreign keys not enforced).
CascadeNoteDelete_NoCascade(rows, nid) == rows

\* note_id ... REFERENCES notes(id) ON DELETE CASCADE: deleting a note row
\* deletes the note_tags rows that refer to it.
CascadeNoteDelete(rows, nid) ==
    LET kept == {r \in BagToSet(rows) : r.note_id # nid}
    IN  [r \in kept |-> rows[r]]

\* Mutant: a note delete prunes the tags that no other note uses.
TagsAfterNoteDelete_Prune(nid) ==
    {t \in tags : \E r \in BagToSet(note_tags) :
                      r.tag_id = t.id /\ r.note_id # nid}

\* No column of tags refers to notes: deleting a note row leaves every tag row.
TagsAfterNoteDelete(nid) == tags

(* ---------------------- what a request can see ------------------------ *)

\* Mutant: a create request's rows are visible before its atomic unit ends.
PendingIds_None == {}

\* The notes of create requests still in their atomic unit (spec section 5):
\* other requests see neither these rows nor their note_tags rows.
PendingIds == {call[c].id : c \in {d \in Clients : call[d].pc = "add"}}

VisibleNotes == {n \in notes : n.id \notin PendingIds}

VisibleIds == {n.id : n \in VisibleNotes}

VisibleNoteTags == {r \in BagToSet(note_tags) : r.note_id \notin PendingIds}

\* The tag names joined to a note through note_tags.
TagNamesOf(nid) ==
    {t.name : t \in {u \in tags :
                        BagIn([note_id |-> nid, tag_id |-> u.id], note_tags)}}

RowOf(nid) == CHOOSE n \in notes : n.id = nid

(* ------------------------------- Init --------------------------------- *)

Init ==
    /\ notes = {}
    /\ tags = {}
    /\ note_tags = EmptyBag
    /\ columns = {}
    /\ seq = [notes |-> 0, tags |-> 0]
    /\ now = 0
    /\ call = [c \in Clients |-> Idle]
    /\ resp = NoReturn
    /\ created = << >>
    /\ removed = << >>

(* ------------- the service's request handlers (spec 4.1) -------------- *)

\* Mutant: the title's emptiness is not checked.
ValidCreate_NoEmptyCheck(req) ==
    /\ "title" \in DOMAIN req
    /\ "body" \in DOMAIN req

\* Create note: title required and non-empty, body required (may be empty).
ValidCreate(req) ==
    /\ "title" \in DOMAIN req
    /\ "body" \in DOMAIN req
    /\ req.title # << >>

\* SELECT id FROM tags WHERE name = ?  (0: no row)
FindTag(name) ==
    LET found == {t \in tags : t.name = name}
    IN  IF found = {} THEN 0
        ELSE (CHOOSE t \in found : \A u \in found : t.id <= u.id).id

\* Insert the association, ignoring a duplicate within the same request.
LinkTag(rows, nid, tid) ==
    IF NoteTagInsertOk(rows, nid, tid)
    THEN rows (+) SetToBag({[note_id |-> nid, tag_id |-> tid]})
    ELSE rows

\* GET /notes/{id}: the note with its tag names, or the not-found signal.
ShowNote(id) ==
    IF id \in VisibleIds
    THEN [ok |-> TRUE, status |-> 200,
          note |-> [id |-> id, title |-> RowOf(id).title,
                    body |-> RowOf(id).body, tags |-> TagNamesOf(id)]]
    ELSE [ok |-> FALSE, status |-> 404]

Summary(n) == [id |-> n.id, title |-> n.title, tags |-> TagNamesOf(n.id)]

\* Mutant: the filter selects the notes that carry any of the listed tags.
WithAllTags_Any(filter) ==
    {n \in VisibleNotes :
        filter = << >> \/ Range(filter) \cap TagNamesOf(n.id) # {}}

\* Mutant: the notes come from an inner join with note_tags, which has no row
\* for a note without tags.
WithAllTags_InnerJoin(filter) ==
    {n \in VisibleNotes :
        TagNamesOf(n.id) # {} /\ Range(filter) \subseteq TagNamesOf(n.id)}

\* The candidate notes of a tag filter: those associated with all listed tags.
WithAllTags(filter) ==
    {n \in VisibleNotes : Range(filter) \subseteq TagNamesOf(n.id)}

\* GET /notes?tags=...: the summaries of the notes the filter selects.
ListNotes(filter) == {Summary(n) : n \in WithAllTags(filter)}

\* A name between two commas of the tags parameter.  Tag names are one
\* character long here, so a segment of one character is that name, an empty
\* segment is the empty name, and a longer segment is a name no note carries.
NameOf(segment) ==
    IF segment = << >> THEN ""
    ELSE IF Len(segment) = 1 THEN segment[1]
    ELSE "other"

RECURSIVE SplitTags(_)
\* ?tags=a,b: the names of the comma-joined filter, in order.
SplitTags(text) ==
    LET commas == {i \in 1 .. Len(text) : text[i] = ","}
    IN  IF commas = {}
        THEN <<NameOf(text)>>
        ELSE LET k == CHOOSE i \in commas : \A j \in commas : i <= j
             IN  <<NameOf(SubSeq(text, 1, k - 1))>>
                     \o SplitTags(SubSeq(text, k + 1, Len(text)))

\* The value the service reads for the tags parameter of the query string
\* that follows "tags=": it ends at the next "&", and is percent-decoded.
QueryValue(raw) ==
    LET cuts == {i \in 1 .. Len(raw) : raw[i] = "&"}
        end == IF cuts = {} THEN Len(raw)
               ELSE (CHOOSE i \in cuts : \A j \in cuts : i <= j) - 1
    IN  [i \in 1 .. end |->
            IF raw[i] = "%2C" THEN ","
            ELSE IF raw[i] = "%26" THEN "&"
            ELSE raw[i]]

\* The tag filter of a request: that of its tags parameter, none without one.
FilterOf(params) ==
    IF "tags" \in DOMAIN params THEN SplitTags(params.tags) ELSE << >>

\* n comes before m in a listing: later updated_at first.  The order of notes
\* with the same updated_at is not specified; the newer id goes first here.
Before(n, m) ==
    \/ n.updated_at > m.updated_at
    \/ n.updated_at = m.updated_at /\ n.id >= m.id

RECURSIVE ByUpdatedAt_ByRowid(_)
\* Mutant: no ORDER BY, the rows come by id.
ByUpdatedAt_ByRowid(rows) ==
    IF rows = {} THEN << >>
    ELSE LET first == CHOOSE n \in rows : \A m \in rows : n.id <= m.id
         IN  <<first>> \o ByUpdatedAt_ByRowid(rows \ {first})

RECURSIVE ByUpdatedAt(_)
\* ORDER BY updated_at DESC
ByUpdatedAt(rows) ==
    IF rows = {} THEN << >>
    ELSE LET first == CHOOSE n \in rows : \A m \in rows : Before(n, m)
         IN  <<first>> \o ByUpdatedAt(rows \ {first})

\* GET /notes?tags=...: the response body, one summary per selected note.
GetNotes(params) ==
    LET rows == ByUpdatedAt(WithAllTags(FilterOf(params)))
    IN  [i \in 1 .. Len(rows) |-> Summary(rows[i])]

\* Mutant: the pattern has to match the whole text.
Matches_Whole(pattern, text) == text = pattern

\* The pattern occurs in the text (a literal pattern: a substring search).
Matches(pattern, text) ==
    \E i \in 1 .. (Len(text) + 1) :
        /\ i + Len(pattern) - 1 <= Len(text)
        /\ SubSeq(text, i, i + Len(pattern) - 1) = pattern

\* GET /grep?q=...&tags=...: the filter's candidates whose title or body matches.
GrepNotes(pattern, filter) ==
    {Summary(n) : n \in {m \in WithAllTags(filter) :
                            Matches(pattern, m.title) \/ Matches(pattern, m.body)}}

\* The pattern is a regular expression: its groups are closed.
WellFormed(pattern) ==
    Cardinality({i \in DOMAIN pattern : pattern[i] = "("})
        = Cardinality({i \in DOMAIN pattern : pattern[i] = ")"})

RECURSIVE ById(_)
\* ORDER BY id
ById(rows) ==
    IF rows = {} THEN << >>
    ELSE LET first == CHOOSE n \in rows : \A m \in rows : n.id <= m.id
         IN  <<first>> \o ById(rows \ {first})

\* GET /grep?q=...&tags=...: a client error for a malformed pattern, with the
\* body the service gives its errors; else the matching notes of the filter's
\* candidates, by id.
GetGrep(params, errorBody) ==
    IF ~WellFormed(params.q)
    THEN [ok |-> FALSE, status |-> 400, body |-> errorBody]
    ELSE LET rows == ById({n \in WithAllTags(FilterOf(params)) :
                             Matches(params.q, n.title) \/ Matches(params.q, n.body)})
         IN  [ok |-> TRUE, status |-> 200, body |-> "json_array",
              notes |-> [i \in 1 .. Len(rows) |-> Summary(rows[i])]]

\* GET /tags: every tag with the count of its note_tags rows.
ListTags ==
    {[name |-> t.name,
      count |-> Cardinality({r \in VisibleNoteTags : r.tag_id = t.id})]
        : t \in tags}

\* The characters of tag names, in code point order.
Alphabet == <<"x", "y">>

\* The position of a one-character name in the order of names.
Ord(name) == CHOOSE i \in DOMAIN Alphabet : Alphabet[i] = name

RECURSIVE ByName_ById(_)
\* Mutant: no ORDER BY, the rows come by tag id.
ByName_ById(rows) ==
    IF rows = {} THEN << >>
    ELSE LET first == CHOOSE t \in rows :
                          \A u \in rows : FindTag(t.name) <= FindTag(u.name)
         IN  <<first>> \o ByName_ById(rows \ {first})

RECURSIVE ByName(_)
\* ORDER BY name
ByName(rows) ==
    IF rows = {} THEN << >>
    ELSE LET first == CHOOSE t \in rows : \A u \in rows : Ord(t.name) <= Ord(u.name)
         IN  <<first>> \o ByName(rows \ {first})

\* GET /tags: the response body, by name.
GetTags == ByName(ListTags)

\* DELETE /notes/{id} finds the note.
DeleteFinds(id) == id \in VisibleIds

(* ------------------- the tool adapter (tools.ts) ---------------------- *)

\* Mutant: title and body sent under each other's key.
AddRequestBody_Swapped(input) ==
    [title |-> input.body, body |-> input.title, tags |-> input.tags]

\* add: the JSON body of POST /notes.
AddRequestBody(input) ==
    [title |-> input.title, body |-> input.body, tags |-> input.tags]

\* add: "Error adding note: ..." for a response that is not ok.
AddError(status, req) ==
    [tool |-> "add", kind |-> "error", status |-> status, req |-> req]

\* add: "Added note <id>: <title>".
AddDone(id) == [tool |-> "add", kind |-> "added", id |-> id]

\* Mutant: the request for a note is sent with the method of rm.
ShowMethod_Delete == "DELETE"

\* show: fetch(url) without a method, a GET.
ShowMethod == "GET"

\* Mutant: the response is formatted without looking at res.ok.
ShowText_NoOkCheck(id, res) ==
    [tool |-> "show", kind |-> "note", id |-> id,
     title |-> IF res.ok THEN res.note.title ELSE <<"undefined">>,
     body |-> IF res.ok THEN res.note.body ELSE <<"undefined">>,
     tags |-> IF res.ok THEN res.note.tags ELSE {}]

\* show: "Note <id> not found." when the response is not ok, else the note.
ShowText(id, res) ==
    IF ~res.ok
    THEN [tool |-> "show", kind |-> "not_found", id |-> id]
    ELSE [tool |-> "show", kind |-> "note", id |-> id, title |-> res.note.title,
          body |-> res.note.body, tags |-> res.note.tags]

RECURSIVE Join(_)
\* tags.join(","): the names with a comma between neighbours.
Join(list) ==
    IF list = << >> THEN << >>
    ELSE IF Len(list) = 1 THEN <<list[1]>>
    ELSE <<list[1], ",">> \o Join(Tail(list))

\* Mutant: the tags parameter is sent whenever the input has a tag list, also
\* an empty one.
LsParams_AnyList(input) ==
    IF "tags" \in DOMAIN input
    THEN [tags |-> Join(input.tags)]
    ELSE << >>

\* ls: the query string, with a tags parameter when the input has tags.
LsParams(input) ==
    IF "tags" \in DOMAIN input /\ Len(input.tags) > 0
    THEN [tags |-> Join(input.tags)]
    ELSE << >>

\* ls: "No notes found." for an empty array, else one line per element.
LsText(res) ==
    IF Len(res) = 0
    THEN [tool |-> "ls", kind |-> "empty"]
    ELSE [tool |-> "ls", kind |-> "lines",
          lines |-> [i \in 1 .. Len(res) |->
                        [id |-> res[i].id, title |-> res[i].title]]]

\* Mutant: the tags of the input are never put into the query string.
GrepParams_NoTags(input) == [q |-> input.query]

\* grep: new URLSearchParams({q}), with tags when the input has tags.
GrepParams(input) ==
    IF "tags" \in DOMAIN input /\ Len(input.tags) > 0
    THEN [q |-> input.query, tags |-> Join(input.tags)]
    ELSE [q |-> input.query]

\* `${params}` of a URLSearchParams: the value percent-encoded, a comma as
\* %2C and an ampersand as %26 (each written as one character here).
Encode(text) ==
    [i \in 1 .. Len(text) |->
        IF text[i] = "," THEN "%2C"
        ELSE IF text[i] = "&" THEN "%26"
        ELSE text[i]]

\* grep: "Search error: ..." when the response is not ok, "No matching notes
\* found." for an empty array, else one line per element.
GrepText(res) ==
    IF ~res.ok
    THEN [kind |-> "search_error", status |-> res.status]
    ELSE IF Len(res.notes) = 0
    THEN [kind |-> "empty", status |-> res.status]
    ELSE [kind |-> "lines", status |-> res.status,
          lines |-> [i \in 1 .. Len(res.notes) |->
                        [id |-> res.notes[i].id, title |-> res.notes[i].title]]]

\* searchNotes of examples/agent-sdk: res.json() without a look at res.ok,
\* then notes.length and notes.map over n.body.  res.json() throws on a body
\* that is not JSON; an object has no length; a string has no map.
SearchNotesText(res) ==
    IF res.body = "text" THEN [kind |-> "throws", status |-> res.status]
    ELSE IF res.body = "json_object" THEN [kind |-> "empty", status |-> res.status]
    ELSE IF res.body = "json_string" THEN [kind |-> "throws", status |-> res.status]
    ELSE IF Len(res.notes) = 0 THEN [kind |-> "empty", status |-> res.status]
    ELSE IF \E i \in DOMAIN res.notes : "body" \notin DOMAIN res.notes[i]
    THEN [kind |-> "throws", status |-> res.status]
    ELSE [kind |-> "lines", status |-> res.status,
          lines |-> [i \in 1 .. Len(res.notes) |->
                        [id |-> res.notes[i].id, title |-> res.notes[i].title]]]

\* tags: "No tags found." for an empty array, else one line per element.
TagsText(res) ==
    IF Len(res) = 0
    THEN [tool |-> "tags", kind |-> "empty"]
    ELSE [tool |-> "tags", kind |-> "lines",
          lines |-> [i \in 1 .. Len(res) |->
                        [name |-> res[i].name, count |-> res[i].count]]]

\* The tags command of the tool.
ToolTags == TagsText(GetTags)

\* addNote of examples/agent-sdk, for a response that is not ok: res.json()
\* without a look at res.ok, then "Added note ${data.id}".  res.json() throws
\* on a body that is not JSON; otherwise data.id is undefined, written 0.
AddNoteText(res) ==
    IF res.body = "text"
    THEN [tool |-> "addNote", kind |-> "throws", status |-> res.status]
    ELSE [tool |-> "addNote", kind |-> "added", status |-> res.status, id |-> 0]

\* The ls command of the tool.
ToolLs(input) == LsText(GetNotes(LsParams(input)))

\* Mutant: the line says deleted whatever res.ok is.
RmLine_AlwaysDeleted(id, ok) == [id |-> id, text |-> "deleted"]

\* rm: the line pushed for one id.
RmLine(id, ok) == [id |-> id, text |-> IF ok THEN "deleted" ELSE "not_found"]

\* Mutant: the loop stops at the first id that is not found.
RmMore_StopAtNotFound(c) ==
    /\ Len(call[c].results) < Len(call[c].ids)
    /\ IF call[c].results = << >>
       THEN TRUE
       ELSE call[c].results[Len(call[c].results)].text = "deleted"

\* rm: the loop goes on while ids are left.
RmMore(c) == Len(call[c].results) < Len(call[c].ids)

\* Create note: tag names of the request are left to find-or-create.
MoreTags(c) == call[c].i <= Len(call[c].tags)

(* ------------------------------ actions ------------------------------- *)

StoreUnchanged ==
    UNCHANGED <<notes, tags, note_tags, columns, seq, created, removed>>

\* POST /notes: reject a malformed request, or insert the note row and go on
\* to its tags inside the request's atomic unit.  asked is what the caller
\* wanted stored.
PostNotes(c, req, asked) ==
    /\ call[c] = Idle
    /\ IF ~ValidCreate(req)
       THEN /\ resp' = AddError(400, req)
            /\ UNCHANGED <<call, now>>
            /\ StoreUnchanged
       ELSE /\ seq.notes < MaxNotes
            /\ NotesInsertOk(req)
            /\ notes' = notes \cup {NoteRow(NextNoteId, req)}
            /\ seq' = [seq EXCEPT !.notes = NextNoteId]
            /\ call' = [call EXCEPT ![c] =
                          [pc |-> "add", id |-> NextNoteId, tags |-> req.tags,
                           i |-> 1, phase |-> "find"]]
            /\ created' = [i \in DOMAIN created \cup {NextNoteId} |->
                             IF i = NextNoteId
                             THEN [title |-> asked.title, body |-> asked.body,
                                   tags |-> Range(asked.tags), raced |-> FALSE]
                             ELSE created[i]]
            /\ resp' = NoReturn
            /\ UNCHANGED <<tags, note_tags, columns, now, removed>>

\* The add command of the tool.
ToolAdd(c) ==
    \E text \in AddTexts, tl \in TagLists :
        LET input == [title |-> text.title, body |-> text.body, tags |-> tl]
        IN  PostNotes(c, AddRequestBody(input), input)

\* A POST /notes with an empty title or with a required field missing.
PostMalformed(c) == \E req \in BadRequests : PostNotes(c, req, req)

\* Find-or-create, first half: look the next tag name up; link it when found.
TagFind(c) ==
    /\ call[c].pc = "add"
    /\ call[c].phase = "find"
    /\ MoreTags(c)
    /\ LET tid == FindTag(call[c].tags[call[c].i])
       IN  IF tid # 0
           THEN /\ note_tags' = LinkTag(note_tags, call[c].id, tid)
                /\ call' = [call EXCEPT ![c].i = @ + 1]
           ELSE /\ call' = [call EXCEPT ![c].phase = "insert"]
                /\ UNCHANGED note_tags
    /\ resp' = NoReturn
    /\ UNCHANGED <<notes, tags, columns, seq, now, created, removed>>

\* Find-or-create, second half: insert the tag row and link it; on the
\* uniqueness conflict fall back to reading the existing row.
TagInsert(c) ==
    /\ call[c].pc = "add"
    /\ call[c].phase = "insert"
    /\ LET name == call[c].tags[call[c].i]
       IN  IF TagInsertOk(name)
           THEN /\ tags' = tags \cup {[id |-> NextTagId, name |-> name]}
                /\ seq' = [seq EXCEPT !.tags = NextTagId]
                /\ note_tags' = note_tags (+)
                       SetToBag({[note_id |-> call[c].id, tag_id |-> NextTagId]})
                /\ call' = [call EXCEPT ![c].i = @ + 1, ![c].phase = "find"]
                /\ UNCHANGED created
           ELSE /\ call' = [call EXCEPT ![c].phase = "find"]
                /\ created' = [created EXCEPT ![call[c].id].raced = TRUE]
                /\ UNCHANGED <<tags, seq, note_tags>>
    /\ resp' = NoReturn
    /\ UNCHANGED <<notes, columns, now, removed>>

\* The atomic unit ends: the note and its tags become visible, the response
\* {id} is ok and the tool returns "Added note <id>: <title>".
Commit(c) ==
    /\ call[c].pc = "add"
    /\ ~MoreTags(c)
    /\ call' = [call EXCEPT ![c] = Idle]
    /\ resp' = AddDone(call[c].id)
    /\ UNCHANGED <<now>>
    /\ StoreUnchanged

\* The rm command of the tool: start the loop over its ids.
ToolRm(c, lists) ==
    /\ call[c] = Idle
    /\ \E ids \in lists :
           call' = [call EXCEPT ![c] = [pc |-> "rm", ids |-> ids, results |-> << >>]]
    /\ resp' = NoReturn
    /\ UNCHANGED <<now>>
    /\ StoreUnchanged

\* One turn of the rm loop: DELETE /notes/{id}, then push the line for it.
RmStep(c) ==
    /\ call[c].pc = "rm"
    /\ RmMore(c)
    /\ LET id == call[c].ids[Len(call[c].results) + 1]
           ok == DeleteFinds(id)
       IN  /\ notes' = IF ok THEN notes \ {RowOf(id)} ELSE notes
           /\ note_tags' = IF ok THEN CascadeNoteDelete(note_tags, id) ELSE note_tags
           /\ tags' = IF ok THEN TagsAfterNoteDelete(id) ELSE tags
           /\ created' = IF ok
                         THEN [i \in DOMAIN created \ {id} |-> created[i]]
                         ELSE created
           /\ removed' = IF ok
                         THEN [i \in DOMAIN removed \cup {id} |->
                                 IF i = id THEN TagNamesOf(id) ELSE removed[i]]
                         ELSE removed
           /\ call' = [call EXCEPT ![c].results = Append(@, RmLine(id, ok))]
    /\ resp' = NoReturn
    /\ UNCHANGED <<columns, seq, now>>

\* The rm loop is over: the tool returns the lines joined.
RmReturn(c) ==
    /\ call[c].pc = "rm"
    /\ ~RmMore(c)
    /\ resp' = [tool |-> "rm", kind |-> "lines", ids |-> call[c].ids,
                lines |-> call[c].results]
    /\ call' = [call EXCEPT ![c] = Idle]
    /\ UNCHANGED <<now>>
    /\ StoreUnchanged

\* The grep command of the tool: one request, and the text made of its response.
ToolGrep(c) ==
    /\ call[c] = Idle
    /\ \E input \in GrepInputs, b \in ErrorBodies :
           LET text == GrepText(GetGrep(GrepParams(input), b))
           IN  resp' = [tool |-> "grep", kind |-> text.kind, input |-> input,
                        text |-> text]
    /\ UNCHANGED <<call, now>>
    /\ StoreUnchanged

\* The searchNotes tool of examples/agent-sdk.
SearchNotes(c) ==
    /\ call[c] = Idle
    /\ \E input \in GrepInputs, b \in ErrorBodies :
           LET text == SearchNotesText(GetGrep(GrepParams(input), b))
           IN  resp' = [tool |-> "searchNotes", kind |-> text.kind,
                        input |-> input, text |-> text]
    /\ UNCHANGED <<call, now>>
    /\ StoreUnchanged

\* The second migration is applied: its one statement runs, or is refused by
\* the parser and changes nothing.
ApplyMigration ==
    /\ MigrationColumn \notin columns
    /\ IF AddColumnOk(MigrationColumn)
       THEN /\ columns' = columns \cup {MigrationColumn}
            /\ notes' = {WithColumn(n) : n \in notes}
            /\ resp' = [tool |-> "migrate", kind |-> "applied"]
       ELSE /\ UNCHANGED <<columns, notes>>
            /\ resp' = [tool |-> "migrate", kind |-> "syntax_error"]
    /\ UNCHANGED <<tags, note_tags, seq, now, call, created, removed>>

\* The ls command of the tool as a step of a caller.
RunLs(c) ==
    /\ call[c] = Idle
    /\ \E input \in LsInputs : resp' = ToolLs(input)
    /\ UNCHANGED <<call, now>>
    /\ StoreUnchanged

\* The show command of the tool, for an id of a note or of none.  The service
\* answers a GET of /notes/{id} with the note and writes nothing; the same
\* path with DELETE removes the note.
RunShow(c) ==
    /\ call[c] = Idle
    /\ \E id \in NoteIds :
           LET gone == ShowMethod = "DELETE" /\ DeleteFinds(id)
           IN  /\ resp' = ShowText(id, ShowNote(id))
               /\ notes' = IF gone THEN notes \ {RowOf(id)} ELSE notes
               /\ note_tags' = IF gone THEN CascadeNoteDelete(note_tags, id)
                                ELSE note_tags
               /\ tags' = IF gone THEN TagsAfterNoteDelete(id) ELSE tags
    /\ UNCHANGED <<call, now, columns, seq, created, removed>>

\* The tags command of the tool as a step of a caller.
RunTags(c) ==
    /\ call[c] = Idle
    /\ resp' = ToolTags
    /\ UNCHANGED <<call, now>>
    /\ StoreUnchanged

\* The ls command with a tag list of any names: `?tags=${tags.join(",")}` goes
\* into the URL as it is, and the service reads its tags parameter.
LsNamed(c) ==
    /\ call[c] = Idle
    /\ \E list \in NameLists :
           LET input == [command |-> "ls", tags |-> list]
               got == [tags |-> QueryValue(LsParams(input).tags)]
           IN  resp' = [tool |-> "ls", kind |-> LsText(GetNotes(got)).kind,
                        input |-> input, filter |-> FilterOf(got),
                        text |-> LsText(GetNotes(got))]
    /\ UNCHANGED <<call, now>>
    /\ StoreUnchanged

\* The grep command with a tag list of any names: the URLSearchParams is
\* serialised into the URL, and the service reads its tags parameter.
GrepNamed(c) ==
    /\ call[c] = Idle
    /\ \E list \in NameLists, q \in Patterns, b \in ErrorBodies :
           LET input == [command |-> "grep", query |-> q, tags |-> list]
               sent == GrepParams(input)
               got == [q |-> sent.q, tags |-> QueryValue(Encode(sent.tags))]
               text == GrepText(GetGrep(got, b))
           IN  resp' = [tool |-> "grep", kind |-> text.kind, input |-> input,
                        filter |-> FilterOf(got), text |-> text]
    /\ UNCHANGED <<call, now>>
    /\ StoreUnchanged

\* The add command of the tool with an empty title.
ToolAddUntitled(c) ==
    \E input \in UntitledInputs : PostNotes(c, AddRequestBody(input), input)

\* The addNote tool of examples/agent-sdk: the same request; a rejection is
\* answered with the body the service gives its errors.
AddNote(c) ==
    \E text \in AddTexts \cup UntitledInputs, b \in ErrorBodies :
        LET input == [title |-> text.title, body |-> text.body, tags |-> <<"x">>]
            req == [title |-> input.title, body |-> input.body, tags |-> input.tags]
        IN  IF ValidCreate(req)
            THEN PostNotes(c, req, input)
            ELSE /\ call[c] = Idle
                 /\ resp' = AddNoteText([ok |-> FALSE, status |-> 400, body |-> b])
                 /\ UNCHANGED <<call, now>>
                 /\ StoreUnchanged

\* Time passes at the store.
Tick ==
    /\ now < MaxNow
    /\ now' = now + 1
    /\ resp' = NoReturn
    /\ UNCHANGED call
    /\ StoreUnchanged

Next ==
    \/ \E c \in Creators : ToolAdd(c)
    \/ \E c \in Creators : PostMalformed(c)
    \/ \E c \in Creators : TagFind(c)
    \/ \E c \in Creators : TagInsert(c)
    \/ \E c \in Creators : Commit(c)
    \/ \E c \in Removers : ToolRm(c, IdLists)
    \/ \E c \in Removers : RmStep(c)
    \/ \E c \in Removers : RmReturn(c)

Spec == Init /\ [][Next]_vars

\* Two callers create notes concurrently, and one of them also deletes notes
\* between its creates.
NextRace ==
    \/ \E c \in Clients : ToolAdd(c)
    \/ \E c \in Clients : TagFind(c)
    \/ \E c \in Clients : TagInsert(c)
    \/ \E c \in Clients : Commit(c)
    \/ \E c \in Removers : ToolRm(c, SingleIds)
    \/ \E c \in Removers : RmStep(c)
    \/ \E c \in Removers : RmReturn(c)

SpecRace == Init /\ [][NextRace]_vars

\* One caller creates notes while another deletes single notes and searches.
NextRead ==
    \/ \E c \in Creators : ToolAdd(c)
    \/ \E c \in Creators : TagFind(c)
    \/ \E c \in Creators : TagInsert(c)
    \/ \E c \in Creators : Commit(c)
    \/ \E c \in Removers : ToolRm(c, SingleIds)
    \/ \E c \in Removers : RmStep(c)
    \/ \E c \in Removers : RmReturn(c)
    \/ \E c \in Readers : ToolGrep(c)
    \/ \E c \in Readers : SearchNotes(c)

SpecRead == Init /\ [][NextRead]_vars

\* One caller creates notes and another deletes single notes while time passes.
NextClock ==
    \/ \E c \in Creators : ToolAdd(c)
    \/ \E c \in Creators : TagFind(c)
    \/ \E c \in Creators : TagInsert(c)
    \/ \E c \in Creators : Commit(c)
    \/ \E c \in Removers : ToolRm(c, SingleIds)
    \/ \E c \in Removers : RmStep(c)
    \/ \E c \in Removers : RmReturn(c)
    \/ Tick

SpecClock == Init /\ [][NextClock]_vars

\* One caller creates notes and another deletes single notes, and the second
\* migration is applied to the store at some point.
NextMigrate ==
    \/ \E c \in Creators : ToolAdd(c)
    \/ \E c \in Creators : TagFind(c)
    \/ \E c \in Creators : TagInsert(c)
    \/ \E c \in Creators : Commit(c)
    \/ \E c \in Removers : ToolRm(c, SingleIds)
    \/ \E c \in Removers : RmStep(c)
    \/ \E c \in Removers : RmReturn(c)
    \/ ApplyMigration

SpecMigrate == Init /\ [][NextMigrate]_vars

\* One caller creates notes while another deletes single notes and runs the
\* four read commands.
NextQuery ==
    \/ \E c \in Creators : ToolAdd(c)
    \/ \E c \in Creators : TagFind(c)
    \/ \E c \in Creators : TagInsert(c)
    \/ \E c \in Creators : Commit(c)
    \/ \E c \in Removers : ToolRm(c, SingleIds)
    \/ \E c \in Removers : RmStep(c)
    \/ \E c \in Removers : RmReturn(c)
    \/ \E c \in Readers : RunLs(c)
    \/ \E c \in Readers : RunShow(c)
    \/ \E c \in Readers : ToolGrep(c)
    \/ \E c \in Readers : RunTags(c)

SpecQuery == Init /\ [][NextQuery]_vars

\* One caller creates notes while another lists and searches with tag lists
\* of any names.
NextFilter ==
    \/ \E c \in Creators : ToolAdd(c)
    \/ \E c \in Creators : TagFind(c)
    \/ \E c \in Creators : TagInsert(c)
    \/ \E c \in Creators : Commit(c)
    \/ \E c \in Readers : LsNamed(c)
    \/ \E c \in Readers : GrepNamed(c)

SpecFilter == Init /\ [][NextFilter]_vars

\* One caller creates notes with the add tool of either adapter, also with an
\* empty title, while another deletes single notes.
NextAdd ==
    \/ \E c \in Creators : ToolAdd(c)
    \/ \E c \in Creators : ToolAddUntitled(c)
    \/ \E c \in Creators : AddNote(c)
    \/ \E c \in Creators : TagFind(c)
    \/ \E c \in Creators : TagInsert(c)
    \/ \E c \in Creators : Commit(c)
    \/ \E c \in Removers : ToolRm(c, SingleIds)
    \/ \E c \in Removers : RmStep(c)
    \/ \E c \in Removers : RmReturn(c)

SpecAdd == Init /\ [][NextAdd]_vars

(* ------------------------------- claims ------------------------------- *)

\* The notes whose create request has returned and that no delete removed.
Present == DOMAIN created \ PendingIds

\* The present notes whose create request named the tag.
CreatedWith(name) == {id \in Present : name \in created[id].tags}

\* C1: a note that its create request returned and no delete removed is shown
\* with the title, the body and exactly the tag names its creator asked for,
\* whatever happened to other notes.
C1_RoundTrip ==
    \A id \in Present :
        LET text == ShowText(id, ShowNote(id))
        IN  /\ text.kind = "note"
            /\ text.title = created[id].title
            /\ text.body = created[id].body
            /\ text.tags = created[id].tags

\* C1 happens: a two-tag note with a body is shown after another note was deleted.
C1_Witness ==
    \E id \in Present :
        /\ created[id].tags = {"x", "y"}
        /\ created[id].body = <<"h", "i">>
        /\ ShowNote(id).ok
        /\ DOMAIN removed # {}

\* C2: once a note is deleted, no list and no grep returns it, show reports
\* not-found, no note_tags row refers to it, and /tags counts for every tag the
\* present notes associated with it.
C2_DeleteRemoves ==
    \A n \in DOMAIN removed :
        /\ \A f \in Filters : \A s \in ListNotes(f) : s.id # n
        /\ \A q \in Patterns, f \in Filters : \A s \in GrepNotes(q, f) : s.id # n
        /\ ShowNote(n).status = 404
        /\ \A r \in BagToSet(note_tags) : r.note_id # n
        /\ \A t \in ListTags :
               t.count = Cardinality({m \in VisibleNotes : t.name \in TagNamesOf(m.id)})

\* C2 happens: a note was deleted and a tag it carried still counts another note.
C2_Witness ==
    \E n \in DOMAIN removed : \E t \in ListTags :
        /\ t.name \in removed[n]
        /\ t.count = 1
        /\ CreatedWith(t.name) # {}

\* C3: no two tag rows have the same name, /tags reports a name once, and its
\* count is the number of present notes created with it.
C3_TagNamesUnique ==
    /\ \A t, u \in tags : t.name = u.name => t = u
    /\ \A name \in TagNames : Cardinality({t \in ListTags : t.name = name}) <= 1
    /\ \A t \in ListTags : t.count = Cardinality(CreatedWith(t.name))

\* C3 happens: two creates named the tag x, and the one row x counts 2.
C3_Witness ==
    /\ Cardinality({t \in tags : t.name = "x"}) = 1
    /\ [name |-> "x", count |-> 2] \in ListTags

\* C4: create requests that race on a new tag name all succeed: no response is
\* a conflict or store error, every returned note is there, one tag row has
\* the name, and every note created with the name is linked to that row.
C4_ConcurrentCreate ==
    /\ resp.kind = "error" => resp.status = 400
    /\ \A id \in Present :
           /\ id \in VisibleIds
           /\ \A name \in created[id].tags :
                  /\ Cardinality({t \in tags : t.name = name}) = 1
                  /\ \A t \in tags :
                         t.name = name =>
                             BagIn([note_id |-> id, tag_id |-> t.id], note_tags)

\* C4 happens: two notes are there with a common tag, and the create request
\* of one of them lost the race for a tag row and fell back to the existing row.
C4_Witness ==
    \E i, j \in Present :
        /\ i # j
        /\ created[i].raced
        /\ created[i].tags \cap created[j].tags # {}

\* C5: whatever requests are in flight, a note that show, list or grep returns
\* has the whole tag set of its creation, and /tags counts the present notes
\* only: neither a note still being created nor a deleted one.
C5_AtomicToObservers ==
    /\ \A id \in NoteIds :
           ShowNote(id).ok => ShowNote(id).note.tags = created[id].tags
    /\ \A f \in Filters : \A s \in ListNotes(f) : s.tags = created[s.id].tags
    /\ \A q \in Patterns : \A s \in GrepNotes(q, << >>) : s.tags = created[s.id].tags
    /\ \A t \in ListTags :
           t.count = Cardinality({id \in VisibleIds : t.name \in created[id].tags})

\* C5 happens: a create request has linked one of its two tags, and no
\* request sees its note.
C5_Witness ==
    \E c \in Clients :
        /\ call[c].pc = "add"
        /\ TagNamesOf(call[c].id) # {}
        /\ TagNamesOf(call[c].id) # created[call[c].id].tags
        /\ ~ShowNote(call[c].id).ok
        /\ \A s \in ListNotes(<< >>) : s.id # call[c].id

\* C6: every note_tags row refers to a note row and to a tag row, and the
\* table holds each (note_id, tag_id) pair once.
C6_ReferentialIntegrity ==
    \A r \in BagToSet(note_tags) :
        /\ \E n \in notes : n.id = r.note_id
        /\ \E t \in tags : t.id = r.tag_id
        /\ CopiesIn(r, note_tags) = 1

\* C6 happens: a create request that names a tag twice has gone through its
\* list, after a note with tags was deleted.
C6_Witness ==
    /\ \E c \in Clients :
           /\ call[c].pc = "add"
           /\ call[c].tags = <<"x", "y", "x">>
           /\ ~MoreTags(c)
    /\ \E n \in DOMAIN removed : removed[n] # {}

\* What a step keeps of the tags: every tag row, every name /tags reports, and
\* the tags of a note it deletes, which /tags reports with the count of the
\* notes still associated (0 when it was the last).
TagsKept ==
    /\ tags \subseteq tags'
    /\ \A t \in ListTags : \E u \in ListTags' : u.name = t.name
    /\ \A n \in (DOMAIN removed') \ (DOMAIN removed) :
           \A name \in removed'[n] :
               \E u \in ListTags' :
                   /\ u.name = name
                   /\ u.count = Cardinality({m \in VisibleNotes' :
                                                name \in TagNamesOf(m.id)'})

\* C7: no step removes a tag row or a name from /tags, and the tags of a
\* deleted note stay listed, with count 0 when no note carries them any more.
C7_OrphanTagsKept == [][TagsKept]_vars

\* C7 happens: the last note that carried a tag was deleted, and /tags lists
\* the tag with count 0.
C7_Witness ==
    \E n \in DOMAIN removed : \E t \in ListTags :
        /\ t.name \in removed[n]
        /\ t.count = 0
        /\ CreatedWith(t.name) = {}
        /\ PendingIds = {}

\* The lines correspond to the first ids of the list, one line per id, in order.
LinesFor(ids, lines) ==
    /\ Len(lines) <= Len(ids)
    /\ \A i \in 1 .. Len(lines) :
           /\ lines[i].id = ids[i]
           /\ lines[i].text \in {"deleted", "not_found"}

\* C8: an rm call returns one line per id of its list, in the order of the
\* list, each deleted or not-found; a not-found id does not end the loop.
C8_BulkRm ==
    /\ \A c \in Removers :
           call[c].pc = "rm" => LinesFor(call[c].ids, call[c].results)
    /\ resp.tool = "rm" =>
           /\ LinesFor(resp.ids, resp.lines)
           /\ Len(resp.lines) = Len(resp.ids)

\* C8 happens: an rm call returned not-found for its first id and deleted the
\* second.
C8_Witness ==
    /\ resp.tool = "rm"
    /\ Len(resp.lines) = 2
    /\ resp.lines[1].text = "not_found"
    /\ resp.lines[2].text = "deleted"

\* C9: show of an id that was never assigned or whose note was deleted is the
\* not-found signal, with no note data; show of a present note is never that.
C9_ShowNotFound ==
    \A id \in NoteIds :
        LET res == ShowNote(id)
            text == ShowText(id, res)
        IN  /\ (id > seq.notes \/ id \in DOMAIN removed) =>
                   /\ res = [ok |-> FALSE, status |-> 404]
                   /\ text = [tool |-> "show", kind |-> "not_found", id |-> id]
            /\ id \in Present =>
                   /\ res.status = 200
                   /\ text.kind = "note"

\* C9 happens: one note is present, one was deleted, one id was never assigned.
C9_Witness ==
    /\ Present # {}
    /\ DOMAIN removed # {}
    /\ \E id \in NoteIds : id > seq.notes

\* What a step that rejects a create request does: a client error, for a
\* request with no or an empty title or no body, and no table changes.  And no
\* step leaves a note with an empty title.
RejectsCleanly ==
    /\ resp'.kind = "error" =>
           /\ resp'.status = 400
           /\ \/ "title" \notin DOMAIN resp'.req
              \/ "body" \notin DOMAIN resp'.req
              \/ resp'.req.title = << >>
           /\ notes' = notes /\ tags' = tags /\ note_tags' = note_tags
           /\ seq' = seq
    /\ \A n \in notes' : n.title # << >>

\* C10: a create request with a missing or empty title or a missing body is
\* rejected with a client error and writes nothing; one with an empty body and
\* a title is not rejected.
C10_RejectedCreate == [][RejectsCleanly]_vars

\* C10 happens: a request without a body was rejected while the store holds a
\* note that was created with an empty body.
C10_Witness ==
    /\ resp.kind = "error"
    /\ "body" \notin DOMAIN resp.req
    /\ \E n \in VisibleNotes : n.body = << >>

\* What one DELETE /notes/{id} of an rm call does: ok for a note that was
\* there, which is gone afterwards; not-found for one that was not, with the
\* three tables as they were.
DeleteOutcome ==
    \A c \in Removers :
        (/\ call[c].pc = "rm"
         /\ call'[c].pc = "rm"
         /\ Len(call'[c].results) = Len(call[c].results) + 1) =>
            LET line == call'[c].results[Len(call'[c].results)]
            IN  IF DeleteFinds(line.id)
                THEN /\ line.text = "deleted"
                     /\ line.id \notin {n.id : n \in notes'}
                     /\ line.id \notin VisibleIds'
                ELSE /\ line.text = "not_found"
                     /\ notes' = notes /\ tags' = tags /\ note_tags' = note_tags
                     /\ line.id \notin VisibleIds'

\* C11: DELETE of a present id answers ok and the note is absent afterwards;
\* DELETE of an absent id answers not-found and leaves notes, tags and
\* note_tags unchanged; so a second DELETE of the same id answers not-found.
C11_DeleteTwice == [][DeleteOutcome]_vars

\* C11 happens: an rm call named the same id twice, deleted the note at the
\* first and got not-found at the second.
C11_Witness ==
    /\ resp.tool = "rm"
    /\ Len(resp.ids) = 2
    /\ resp.ids[1] = resp.ids[2]
    /\ resp.lines[1].text = "deleted"
    /\ resp.lines[2].text = "not_found"

\* The ids of the lines of an ls result, and how often a line names the id.
LsIds(text) ==
    IF text.kind = "empty" THEN {}
    ELSE {text.lines[i].id : i \in DOMAIN text.lines}

LsCount(text, id) ==
    IF text.kind = "empty" THEN 0
    ELSE Cardinality({i \in DOMAIN text.lines : text.lines[i].id = id})

\* C12: ls without a filter returns one entry per present note: as many
\* entries as create requests returned minus deletes that succeeded, which is
\* N after N creates and no delete.
C12_ListAll ==
    \A input \in {[command |-> "ls"], [command |-> "ls", tags |-> << >>]} :
        LET text == ToolLs(input)
            n == seq.notes - Cardinality(PendingIds) - Cardinality(DOMAIN removed)
        IN  /\ (text.kind = "empty") = (n = 0)
            /\ text.kind = "lines" => Len(text.lines) = n
            /\ LsIds(text) = Present
            /\ \A id \in Present : LsCount(text, id) = 1

\* C12 happens: two creates have returned, one of a note without tags, no
\* delete has succeeded, and ls has two lines.
C12_Witness ==
    /\ Cardinality(Present) = 2
    /\ DOMAIN removed = {}
    /\ \E id \in Present : created[id].tags = {}
    /\ ToolLs([command |-> "ls"]).kind = "lines"
    /\ Len(ToolLs([command |-> "ls"]).lines) = 2

Occurs(p, t) ==
    \E k \in 0 .. Len(t) :
        /\ k + Len(p) <= Len(t)
        /\ \A i \in 1 .. Len(p) : t[k + i] = p[i]

\* The present notes with the pattern in the title or in the body, among
\* those that carry every tag of the filter.
Found(input) ==
    {id \in Present :
        /\ \/ Occurs(input.query, created[id].title)
           \/ Occurs(input.query, created[id].body)
        /\ "tags" \in DOMAIN input => Range(input.tags) \subseteq created[id].tags}

\* The ids of the lines of a search result.
LineIds(text) ==
    IF text.kind = "lines" THEN {text.lines[i].id : i \in DOMAIN text.lines} ELSE {}

\* C14: grep with a well-formed pattern answers with a success status and
\* returns exactly the present notes whose title or body matches, each once;
\* when none matches the result is empty, not an error.
C14_GrepMatches ==
    (resp.tool = "grep" /\ "tags" \notin DOMAIN resp.input
                        /\ WellFormed(resp.input.query)) =>
        /\ resp.text.status = 200
        /\ resp.kind = IF Found(resp.input) = {} THEN "empty" ELSE "lines"
        /\ LineIds(resp.text) = Found(resp.input)
        /\ resp.kind = "lines" =>
               Len(resp.text.lines) = Cardinality(Found(resp.input))

\* C14 happens: two notes are present, the pattern h occurs in the body of
\* one of them only, and grep returned that note alone.
C14_Witness ==
    /\ resp.tool = "grep"
    /\ resp.input = [command |-> "grep", query |-> <<"h">>]
    /\ Cardinality(Present) = 2
    /\ \E id \in Present :
           /\ Occurs(<<"h">>, created[id].body)
           /\ LineIds(resp.text) = {id}

\* The note_tags rows of a tag that requests can see.
RowsOfTag(tid) ==
    LET rows == {r \in BagToSet(note_tags) :
                    r.tag_id = tid /\ r.note_id \notin PendingIds}
    IN  BagCardinality([r \in rows |-> note_tags[r]])

\* C15: tags returns every tag row once, with the number of the note_tags
\* rows of the tag as its count, in ascending order of the names.
C15_ListTags ==
    LET text == ToolTags
    IN  IF tags = {}
        THEN text.kind = "empty"
        ELSE /\ text.kind = "lines"
             /\ Len(text.lines) = Cardinality(tags)
             /\ \A t \in tags :
                    \E i \in DOMAIN text.lines :
                        /\ text.lines[i].name = t.name
                        /\ text.lines[i].count = RowsOfTag(t.id)
             /\ \A i, j \in DOMAIN text.lines :
                    i < j => Ord(text.lines[i].name) < Ord(text.lines[j].name)

\* C15 happens: the tag y was created before the tag x, two notes carry x and
\* one carries y, and tags lists x with 2 before y with 1.
C15_Witness ==
    /\ FindTag("y") # 0
    /\ FindTag("y") < FindTag("x")
    /\ ToolTags.kind = "lines"
    /\ ToolTags.lines = <<[name |-> "x", count |-> 2], [name |-> "y", count |-> 1]>>

\* What a step does to note ids: a new row gets an id above every id a note
\* has or had, no two rows share an id, and a deleted id stays deleted.
IdsIncrease ==
    /\ \A n \in notes' \ notes :
           \A i \in {m.id : m \in notes} \cup DOMAIN removed : n.id > i
    /\ \A n, m \in notes' : n.id = m.id => n = m
    /\ DOMAIN removed \subseteq DOMAIN removed'
    /\ \A i \in DOMAIN removed' : \A n \in notes' : n.id # i

\* C16: every created note gets an id greater than every id assigned before,
\* those of deleted notes included; ids are unique, and an id that was
\* deleted is never present again.
C16_IdsMonotonic == [][IdsIncrease]_vars

\* C16 happens: note 1 was deleted, and the create request that came next has
\* just been given the id 2.
C16_Witness ==
    /\ 1 \in DOMAIN removed
    /\ \A c \in Removers : call[c] = Idle
    /\ resp = NoReturn
    /\ \E c \in Creators :
           /\ call[c].pc = "add"
           /\ call[c].id = 2
           /\ call[c].i = 1
           /\ call[c].phase = "find"

\* What a step does to timestamps: a new note row has the clock's reading in
\* created_at and in updated_at, and no row has updated_at before created_at.
TimestampsOk ==
    /\ \A n \in notes' \ notes : n.created_at = now /\ n.updated_at = now
    /\ \A n \in notes' : n.updated_at >= n.created_at

\* C17: a create sets created_at and updated_at to the same current
\* timestamp, and every note has updated_at >= created_at.
C17_Timestamps == [][TimestampsOk]_vars

\* C17 happens: two notes were created at different times, and the clock has
\* moved on since the later one.
C17_Witness ==
    \E n, m \in notes :
        /\ n.created_at < m.created_at
        /\ m.updated_at = m.created_at
        /\ m.created_at < now

\* What applying the migration does: every note row is still there with its
\* id, title, body, created_at and updated_at and with the empty list of
\* references, and the tags and the associations are as they were.
MigrationKeepsRows ==
    resp'.tool = "migrate" =>
        /\ \A n \in notes :
               \E m \in notes' :
                   /\ m.id = n.id /\ m.title = n.title /\ m.body = n.body
                   /\ m.created_at = n.created_at
                   /\ m.updated_at = n.updated_at
                   /\ "references" \in DOMAIN m
                   /\ m.references = << >>
        /\ Cardinality(notes') = Cardinality(notes)
        /\ tags' = tags
        /\ note_tags' = note_tags

\* C18: applying the references migration to a store that holds notes keeps
\* every note row with its fields and tag associations, and gives it the
\* empty list of references.
C18_MigrationAdditive == [][MigrationKeepsRows]_vars

\* What a search with a malformed pattern does: the service answers with a
\* client error, the store is as it was, and the tool returns a text.
MalformedAnswered ==
    (/\ resp'.tool \in {"grep", "searchNotes"}
     /\ ~WellFormed(resp'.input.query)) =>
        /\ resp'.text.status = 400
        /\ notes' = notes /\ tags' = tags /\ note_tags' = note_tags
        /\ resp'.kind # "throws"

\* C19: a grep request with a malformed pattern gets a client error and
\* changes nothing in the store, and the search tool of every adapter returns
\* a text to its caller instead of throwing.
C19_MalformedGrep == [][MalformedAnswered]_vars

\* The number of note_tags rows that join a note to a tag of the name.
LinksTo(nid, name) ==
    LET rows == {r \in BagToSet(note_tags) :
                    /\ r.note_id = nid
                    /\ \E t \in tags : t.id = r.tag_id /\ t.name = name}
    IN  BagCardinality([r \in rows |-> note_tags[r]])

\* C20: a create request that repeats a tag name is not rejected and links
\* the note to the tag once, and the tag set of every note holds no name twice.
C20_NoDuplicateTags ==
    /\ \A n \in notes, name \in TagNames : LinksTo(n.id, name) <= 1
    /\ resp.kind = "added" =>
           \A name \in TagNames :
               LinksTo(resp.id, name) =
                   IF name \in created[resp.id].tags THEN 1 ELSE 0
    /\ resp.kind = "error" =>
           \/ "title" \notin DOMAIN resp.req
           \/ "body" \notin DOMAIN resp.req
           \/ resp.req.title = << >>

\* C20 happens: the only create so far asked for x, y, x, which made the tag
\* x before the tag y; it has returned, and its note has two associations.
C20_Witness ==
    /\ seq.notes = 1
    /\ resp.kind = "added"
    /\ FindTag("x") = 1
    /\ FindTag("y") = 2
    /\ LinksTo(1, "x") = 1
    /\ LinksTo(1, "y") = 1

\* The lines of an ls result go from the latest updated_at to the earliest.
Descending(text) ==
    text.kind = "lines" =>
        \A i, j \in DOMAIN text.lines :
            i < j => RowOf(text.lines[i].id).updated_at
                         >= RowOf(text.lines[j].id).updated_at

\* C21: in every ls result, with a filter or without, a note that comes
\* before another has an updated_at that is no earlier.
C21_ListOrder == \A input \in LsInputs : Descending(ToolLs(input))

\* C21 happens: two notes with the tag x were created at different times, and
\* ls with the filter x has the later one first.
C21_Witness ==
    LET text == ToolLs([command |-> "ls", tags |-> <<"x">>])
    IN  /\ text.kind = "lines"
        /\ Len(text.lines) = 2
        /\ RowOf(text.lines[1].id).updated_at > RowOf(text.lines[2].id).updated_at

\* The ids of the notes a grep command returns.
GrepIds(input) ==
    UNION {LineIds(GrepText(GetGrep(GrepParams(input), b))) : b \in ErrorBodies}

\* C22: for every pattern and every tag filter, grep with the filter returns
\* exactly the notes that grep without a filter and ls with the filter both
\* return.
C22_GrepFilter ==
    \A q \in Patterns, f \in Filters :
        GrepIds([command |-> "grep", query |-> q, tags |-> f])
            = GrepIds([command |-> "grep", query |-> q])
                  \cap LsIds(ToolLs([command |-> "ls", tags |-> f]))

\* C22 happens: two present notes have h in the body, one of them carries
\* the tag x, and grep of h with the filter x has returned that one alone.
C22_Witness ==
    /\ resp.tool = "grep"
    /\ resp.input = [command |-> "grep", query |-> <<"h">>, tags |-> <<"x">>]
    /\ \E i, j \in Present :
           /\ LineIds(resp.text) = {i}
           /\ j # i
           /\ Occurs(<<"h">>, created[j].body)
           /\ "x" \notin created[j].tags

\* The ids that the lines report as deleted are ids of deleted notes.
StayDeleted(ids, lines) ==
    \A i \in 1 .. Len(lines) :
        lines[i].text = "deleted" =>
            /\ ids[i] \in DOMAIN removed
            /\ ~ShowNote(ids[i]).ok

\* C23: an rm call over several ids is a sequence of single deletes: what an
\* earlier turn deleted stays deleted whatever the later turns find, during
\* the call and when it returns.  (That other callers run between two turns
\* and see the first id gone and the second still there is C23_Witness.)
C23_BulkNotAtomic ==
    /\ \A c \in Removers :
           call[c].pc = "rm" => StayDeleted(call[c].ids, call[c].results)
    /\ resp.tool = "rm" => StayDeleted(resp.ids, resp.lines)

\* C23 happens: an rm call over the ids 1, 2 has deleted note 1 and not yet
\* turned to 2; between its two deletes the create of another caller has
\* returned, and a show of 1 is not-found while a show of 2 finds the note.
C23_Witness ==
    /\ \E c \in Removers :
           /\ call[c].pc = "rm"
           /\ call[c].ids = <<1, 2>>
           /\ Len(call[c].results) = 1
           /\ call[c].results[1].text = "deleted"
    /\ resp.kind = "added"
    /\ ~ShowNote(1).ok
    /\ ShowNote(2).ok

\* What a step of an add tool returns: "Added note <id>" only with the id of a
\* note the store holds, and an error text for a response that is not ok.
AddToolHonest ==
    resp'.tool \in {"add", "addNote"} =>
        /\ resp'.kind = "added" => resp'.id \in {n.id : n \in notes'}
        /\ "status" \in DOMAIN resp' => resp'.kind = "error"

\* C24: the add tool of every adapter says "Added note <id>" only when the
\* service created the note; for a response that is not ok it returns an
\* error text.
C24_AddReportsFailure == [][AddToolHonest]_vars

\* A step that returns from a read command leaves the three tables as they
\* were, every updated_at included.
ReadsFrame ==
    resp'.tool \in {"ls", "show", "grep", "tags"} =>
        /\ notes' = notes
        /\ tags' = tags
        /\ note_tags' = note_tags

\* C25: list, show, grep and list-tags change nothing: after a read, with any
\* input (an unknown id and a malformed pattern included), the three tables
\* and the updated_at of every note are what they were.
C25_ReadsChangeNothing == [][ReadsFrame]_vars

\* C25 happens: a show of an id that no note has has returned not-found while
\* the store holds a note with a tag.
C25_Witness ==
    /\ resp.tool = "show"
    /\ resp.kind = "not_found"
    /\ notes # {}
    /\ BagToSet(note_tags) # {}

\* What a step keeps of the notes it is not about: the row (title, body,
\* created_at, updated_at and every added column) and the tag set of every
\* note other than the one being created and the one deleted.
OthersKept ==
    LET subjects == PendingIds \cup PendingIds'
                        \cup ((DOMAIN removed') \ (DOMAIN removed))
    IN  \A n \in notes :
            n.id \notin subjects =>
                /\ n \in notes'
                /\ TagNamesOf(n.id)' = TagNamesOf(n.id)

\* C26: creating or deleting a note changes only that note: the row and the
\* tag set of every other present note are what they were before the step.
C26_OnlyThatNote == [][OthersKept]_vars

\* C26 happens: a note was deleted, and a present note that carries one of its
\* tags, written before the clock moved, still has it.
C26_Witness ==
    \E n \in DOMAIN removed : \E m \in Present :
        /\ removed[n] \cap TagNamesOf(m) # {}
        /\ RowOf(m).updated_at < now

\* C27: for every list of tag names passed to ls or grep, the tags parameter
\* the adapter sends, split on commas by the service, is that list of names,
\* also when a name contains a comma or a URL-reserved character.
C27_TagsRoundTrip ==
    (resp.tool \in {"ls", "grep"} /\ "filter" \in DOMAIN resp) =>
        resp.filter = resp.input.tags

\* The inputs of an ls and of a grep call with an empty tag list.
LsEmptyTags == [command |-> "ls", tags |-> << >>]

GrepEmptyTags(q) == [command |-> "grep", query |-> q, tags |-> << >>]

\* C28: an ls or grep call with an empty tag list sends no tags parameter and
\* returns what the same call without a tag list returns; the empty filter
\* selects every note.
C28_EmptyTagList ==
    /\ "tags" \notin DOMAIN LsParams(LsEmptyTags)
    /\ ToolLs(LsEmptyTags) = ToolLs([command |-> "ls"])
    /\ LsIds(ToolLs(LsEmptyTags)) = VisibleIds
    /\ \A q \in Patterns :
           /\ "tags" \notin DOMAIN GrepParams(GrepEmptyTags(q))
           /\ \A b \in ErrorBodies :
                  GrepText(GetGrep(GrepParams(GrepEmptyTags(q)), b))
                      = GrepText(GetGrep(GrepParams([command |-> "grep", query |-> q]), b))
           /\ GrepIds(GrepEmptyTags(q))
                  = {id \in VisibleIds :
                        Occurs(q, RowOf(id).title) \/ Occurs(q, RowOf(id).body)}

\* C28 happens: an ls call has returned two lines, one of a note with a tag
\* and one of a note without, as ls with an empty tag list does.
C28_Witness ==
    /\ resp.tool = "ls"
    /\ resp = ToolLs(LsEmptyTags)
    /\ resp.kind = "lines"
    /\ \E i, j \in DOMAIN resp.lines :
           /\ TagNamesOf(resp.lines[i].id) = {}
           /\ TagNamesOf(resp.lines[j].id) # {}

====
